---- MODULE Spec2Model ----
(***************************************************************************)
(* A model of fpl_slack_bot.py: a batch job that reads league standings    *)
(* from the FPL API, derives an overall table, a monthly table and the     *)
(* lowest score of the last finished gameweek, and posts them to a Slack   *)
(* webhook.  Each network call is one step; its response is chosen by the  *)
(* environment.  A missing value (Python None, an absent dictionary key)   *)
(* is the empty sequence; a present value v is <<v>>.                       *)
(***************************************************************************)
EXTENDS Integers, Sequences, FiniteSets, TLC

\* ------------------------------------------------------------ bounds ----
\* Longest standings page sequence the server holds, and the largest page.
MaxPages == 3
PageMax == 2
\* Largest explicit TEAM_LIMIT tried by the collection runs.
MaxLimit == 3
\* Longest team list given to build_overall_table / compute_bottom_of_week.
MaxTeams == 3
MaxBottomTeams == 3
\* Largest total score of a row given to build_overall_table.
MaxScore == 2
\* Number of gameweeks the bootstrap response may list.
MaxGw == 2
\* The standings the server holds in the runs of the whole script.
MainMaxPages == 2
MainPageMax == 1

\* ------------------------------------------------------- basic values ---
None == << >>
Some(v) == <<v>>
NotExited == 0 - 1

Min(a, b) == IF a < b THEN a ELSE b
Max(a, b) == IF a > b THEN a ELSE b

\* dict.get(key, default) on an optional field.
Get(opt, default) == IF opt = None THEN default ELSE opt[1]

\* ------------------------------------------------ int() of a string ----
Digits == <<"0", "1", "2", "3", "4", "5", "6", "7", "8", "9">>

IsDigit(c) == \E i \in 1..10 : Digits[i] = c

DigitVal(c) == (CHOOSE i \in 1..10 : Digits[i] = c) - 1

RECURSIVE DigitsVal(_)
DigitsVal(s) ==
    IF s = << >> THEN 0
    ELSE 10 * DigitsVal(SubSeq(s, 1, Len(s) - 1)) + DigitVal(s[Len(s)])

Unsigned(s) == IF s # << >> /\ s[1] \in {"-", "+"} THEN Tail(s) ELSE s

\* int(s) raises ValueError unless s is an optionally signed run of digits.
IntRaises(s) ==
    \/ Unsigned(s) = << >>
    \/ \E i \in 1..Len(Unsigned(s)) : ~IsDigit(Unsigned(s)[i])

IntOf(s) ==
    IF s # << >> /\ s[1] = "-" THEN 0 - DigitsVal(Unsigned(s))
    ELSE DigitsVal(Unsigned(s))

\* os.getenv(name, default): env[name] is None when the variable is unset.
GetEnv(env, name, default) == IF env[name] = None THEN default ELSE env[name][1]

\* `not value` for a value read by os.getenv(name): unset or empty.
Falsy(opt) == opt = None \/ opt[1] = << >>

\* ------------------------------------------------------- list slicing ---
\* s[:n] of Python: the first n elements, or all but the last -n when n < 0.
Slice(s, n) ==
    IF n >= 0 THEN SubSeq(s, 1, Min(n, Len(s)))
    ELSE SubSeq(s, 1, Max(Len(s) + n, 0))

\* --------------------------------------------------------------- HTTP ---
\* A response is [status, body]; status 0 stands for a request that could
\* not be completed (requests raises), body None for a body that is not JSON.
NetworkError == 0

\* requests.Response.raise_for_status raises for 4xx and 5xx only.
RaiseForStatus(status) == status >= 400 /\ status < 600

\* get_json raises on a transport error, on 4xx/5xx, and when r.json() fails.
GetJsonRaises(resp) ==
    \/ resp.status = NetworkError
    \/ RaiseForStatus(resp.status)
    \/ resp.body = None

FailedGets ==
    { [status |-> NetworkError, body |-> None],
      [status |-> 500, body |-> None],
      [status |-> 200, body |-> None] }

\* Statuses the webhook may answer with (0: the request raised).
PostStatuses == {NetworkError, 200, 304, 500}

\* post_to_slack raises when session.post raises, or when the status is
\* >= 300 and raise_for_status raises.
PostToSlackRaises(status) ==
    \/ status = NetworkError
    \/ (status >= 300 /\ RaiseForStatus(status))

\* ------------------------------------------------------ server data ----
\* One standings row; the server numbers the rows of a league 1, 2, 3, ...
Row(i) ==
    [entry |-> i, entry_name |-> ToString(i), player_name |-> "p",
     total |-> i % 2, event_total |-> (i + 1) % 2]

\* A standings page whose rows are numbered first .. last.
Page(first, last, more) ==
    [results |-> [k \in 1..(last - first + 1) |-> Row(first + k - 1)],
     has_next |-> more]

\* Every way of cutting rows 1, 2, 3, ... into at most n pages of at most
\* m rows each, with any continuation flag on each page: a shape gives each
\* page's size and flag, PagesOf numbers the rows.
PageShapes(n, m) == UNION { [1..k -> (0..m) \X BOOLEAN] : k \in 0..n }

RECURSIVE PagesOf(_, _)
PagesOf(shape, first) ==
    IF shape = << >> THEN << >>
    ELSE <<Page(first, first + shape[1][1] - 1, shape[1][2])>>
         \o PagesOf(Tail(shape), first + shape[1][1])

PageSeqs(n, m) == { PagesOf(shape, 1) : shape \in PageShapes(n, m) }

\* The league of the scenario, served as pages of 10, 10 and 5 rows.
ScenarioPages == <<Page(1, 10, TRUE), Page(11, 20, TRUE), Page(21, 25, FALSE)>>

\* What the server answers for standings page p: the page it holds, or an
\* empty last page beyond them.
StandingsBody(pages, p) ==
    IF p \in 1..Len(pages) THEN pages[p]
    ELSE [results |-> << >>, has_next |-> FALSE]

\* Bootstrap events: gameweeks 1..n in order, each finished or not.
EventLists ==
    UNION { { [i \in 1..n |-> [id |-> i, finished |-> f[i], phase |-> Some(i)]] :
                f \in [1..n -> BOOLEAN] } : n \in 0..MaxGw }

\* Entry history: records of (event, points); points may be absent.
PointValues == {7, 10}
HistLens == 0..2
Rec(e, p) == [event |-> e, points |-> p]

\* --------------------------------------------------- pure functions ----
\* last_finished_gw: None stands for the RuntimeError it raises.
RECURSIVE MaxOf(_)
MaxOf(S) ==
    LET x == CHOOSE y \in S : TRUE
    IN  IF S = {x} THEN x ELSE Max(x, MaxOf(S \ {x}))

\* (A variant that takes unfinished gameweeks too.)
last_finished_gw_AnyEvent(events) ==
    IF events = << >> THEN None
    ELSE Some(MaxOf({ events[i].id : i \in 1..Len(events) }))
last_finished_gw(events) ==
    LET finished == { i \in 1..Len(events) : events[i].finished }
    IN  IF finished = {} THEN None
        ELSE Some(MaxOf({ events[i].id : i \in finished }))

\* current_phase_from_date: the phase of the first event whose id is the last
\* finished gameweek; None when last_finished_gw raises or next() finds none.
current_phase_from_date(events) ==
    LET g == last_finished_gw(events)
        hits == { j \in 1..Len(events) : g # None /\ events[j].id = g[1] }
    IN  IF hits = {} THEN None
        ELSE Some(Get(events[CHOOSE i \in hits : \A j \in hits : i <= j].phase, 1))

\* The label of a row: "{entry_name} ({player_name})".
Label(t) == <<t.entry_name, " (", t.player_name, ")">>

\* sorted(rows, key=score, reverse=True): a stable sort, built by inserting
\* each row in turn after every row already placed whose score is not lower.
\* (InsertDesc_Unstable places the row before its equals.)
InsertDesc_Unstable(row, sorted) ==
    LET before == { i \in 1..Len(sorted) : sorted[i][2] > row[2] }
        n == Cardinality(before)
    IN  SubSeq(sorted, 1, n) \o <<row>> \o SubSeq(sorted, n + 1, Len(sorted))
InsertDesc(row, sorted) ==
    LET before == { i \in 1..Len(sorted) : sorted[i][2] >= row[2] }
        n == Cardinality(before)
    IN  SubSeq(sorted, 1, n) \o <<row>> \o SubSeq(sorted, n + 1, Len(sorted))

RECURSIVE SortedDesc(_)
SortedDesc(rows) ==
    IF rows = << >> THEN << >>
    ELSE InsertDesc(rows[Len(rows)], SortedDesc(SubSeq(rows, 1, Len(rows) - 1)))

OverallRows(teams) == [i \in 1..Len(teams) |-> <<Label(teams[i]), teams[i].total>>]
MonthRows(teams) == [i \in 1..Len(teams) |-> <<Label(teams[i]), teams[i].event_total>>]

\* next((g for g in hist["current"] if int(g["event"]) == gw), None)
FirstRecord(hist, gw) ==
    LET hits == { i \in 1..Len(hist) : hist[i].event = gw }
    IN  IF hits = {} THEN None
        ELSE Some(hist[CHOOSE i \in hits : \A j \in hits : i <= j])

\* int(this_gw.get("points", 0))
PointsOf(rec) == Get(rec.points, 0)

WorstInit == 10 ^ 9

\* compute_bottom_of_week, line 105: does pts replace the worst so far?
Worse_OrEqual(pts, worst) == pts <= worst
Worse(pts, worst) == pts < worst

\* collect_all_teams, line 68: the while condition.
LoopCond_Inclusive(ts, limit) == Len(ts) <= limit
LoopCond(ts, limit) == Len(ts) < limit

\* collect_all_teams, line 77: teams[:limit].
Truncate_Not(ts, limit) == ts
Truncate(ts, limit) == Slice(ts, limit)

\* -------------------------------------------------------------- state ---
VARIABLES
    environ,          \* os.environ: FPL_LEAGUE_ID, SLACK_WEBHOOK_URL, TEAM_LIMIT
    TEAM_LIMIT,       \* the module global, once parsed
    standings_pages,  \* server: the standings pages of the league
    hist_db,          \* server: each entry's gameweek history
    pc,               \* where the script is
    exit_code,        \* the process exit status, NotExited while running
    net,              \* every request made so far, with its response status
    error,            \* the exception main() raised, None if none
    logged,           \* "Posted Slack update" was logged
    boot, gw, phase,                 \* main: bootstrap response, gameweek, phase
    call,                            \* which caller collect_all_teams runs for
    teams, page, brk, served,        \* collect_all_teams: locals, pages received
    fetched,                         \* the caller's teams = collect_all_teams(..)
    overall, monthly,                \* main: the two ranked tables
    idx, worst_name, worst_points    \* compute_bottom_of_week: loop state

vars ==
    <<environ, TEAM_LIMIT, standings_pages, hist_db, pc, exit_code, net, error,
      logged, boot, gw, phase, call, teams, page, brk, served, fetched,
      overall, monthly, idx, worst_name, worst_points>>

server == <<environ, standings_pages, hist_db>>
mainVars == <<boot, gw, phase>>

\* main, line 133: events = boot.get("events", [])
Events == IF boot = None THEN << >> ELSE boot[1].events
collectVars == <<call, teams, page, brk, served>>
tableVars == <<overall, monthly>>
bottomVars == <<idx, worst_name, worst_points>>

Request(method, what, arg, status) ==
    [method |-> method, what |-> what, arg |-> arg, status |-> status]

\* main() raises: control passes to the except clause of the entry point.
Raise(msg) ==
    /\ pc' = "failed"
    /\ error' = Some(msg)

\* Entering collect_all_teams (lines 66-67) on behalf of caller c.
EnterCollect(c) ==
    /\ pc' = "collect"
    /\ call' = c
    /\ teams' = << >>
    /\ page' = 1
    /\ brk' = FALSE
    /\ served' = << >>

\* Lines 14-22: read the environment, parse TEAM_LIMIT, check the required
\* settings.  A ValueError from int() is uncaught: traceback, exit status 1.
ModuleLoad ==
    /\ pc = "load"
    /\ LET s == GetEnv(environ, "TEAM_LIMIT", <<"5", "0">>)
       IN  IF IntRaises(s)
           THEN /\ pc' = "exited"
                /\ exit_code' = 1
                /\ UNCHANGED TEAM_LIMIT
           ELSE IF Falsy(environ.FPL_LEAGUE_ID) \/ Falsy(environ.SLACK_WEBHOOK_URL)
           THEN /\ pc' = "exited"
                /\ exit_code' = 2
                /\ TEAM_LIMIT' = IntOf(s)
           ELSE /\ pc' = "main"
                /\ TEAM_LIMIT' = IntOf(s)
                /\ UNCHANGED exit_code
    /\ UNCHANGED <<server, net, error, logged, mainVars, collectVars, fetched,
                   tableVars, bottomVars>>

\* main, lines 131-140: fetch the bootstrap, find the gameweek and the phase,
\* and enter build_overall_table's collect_all_teams.
GetBootstrap ==
    /\ pc = "main"
    /\ \E resp \in FailedGets \cup
                   { [status |-> 200, body |-> Some([events |-> ev])] : ev \in EventLists } :
         /\ net' = Append(net, Request("GET", "bootstrap", 0, resp.status))
         /\ IF GetJsonRaises(resp)
            THEN /\ Raise("HTTP error")
                 /\ UNCHANGED <<mainVars, collectVars>>
            ELSE LET evs == resp.body[1].events
                 IN  IF evs = << >>
                     THEN /\ Raise("No events data")
                          /\ boot' = resp.body
                          /\ UNCHANGED <<gw, phase, collectVars>>
                     ELSE IF last_finished_gw(evs) = None
                     THEN /\ Raise("No finished gameweeks yet")
                          /\ boot' = resp.body
                          /\ UNCHANGED <<gw, phase, collectVars>>
                     ELSE IF current_phase_from_date(evs) = None
                     THEN /\ Raise("StopIteration")
                          /\ boot' = resp.body
                          /\ gw' = last_finished_gw(evs)[1]
                          /\ UNCHANGED <<phase, collectVars>>
                     ELSE /\ boot' = resp.body
                          /\ gw' = last_finished_gw(evs)[1]
                          /\ phase' = current_phase_from_date(evs)[1]
                          /\ EnterCollect("overall")
                          /\ UNCHANGED error
    /\ UNCHANGED <<server, TEAM_LIMIT, exit_code, logged, fetched, tableVars, bottomVars>>

\* collect_all_teams, lines 68-76: one turn of the while loop.
GetClassicStandings ==
    /\ pc = "collect"
    /\ ~brk
    /\ LoopCond(teams, TEAM_LIMIT)
    /\ \E resp \in FailedGets \cup
                   { [status |-> 200, body |-> Some(StandingsBody(standings_pages, page))] } :
         /\ net' = Append(net, Request("GET", "standings", page, resp.status))
         /\ IF GetJsonRaises(resp)
            THEN /\ Raise("HTTP error")
                 /\ UNCHANGED <<teams, page, brk, served>>
            ELSE LET data == resp.body[1]
                 IN  /\ served' = Append(served, [page |-> page,
                                                  results |-> data.results,
                                                  has_next |-> data.has_next])
                     /\ IF data.results = << >>
                        THEN /\ brk' = TRUE
                             /\ UNCHANGED <<teams, page>>
                        ELSE /\ teams' = teams \o data.results
                             /\ IF ~data.has_next
                                THEN /\ brk' = TRUE
                                     /\ UNCHANGED page
                                ELSE /\ page' = page + 1
                                     /\ UNCHANGED brk
                     /\ UNCHANGED <<pc, error>>
    /\ UNCHANGED <<server, TEAM_LIMIT, exit_code, logged, mainVars, call, fetched,
                   tableVars, bottomVars>>

\* collect_all_teams, lines 68 and 77: the loop is over, return teams[:limit].
CollectReturn ==
    /\ pc = "collect"
    /\ (brk \/ ~LoopCond(teams, TEAM_LIMIT))
    /\ fetched' = Truncate(teams, TEAM_LIMIT)
    /\ pc' = "build"
    /\ UNCHANGED <<server, TEAM_LIMIT, exit_code, net, error, logged, mainVars,
                   collectVars, tableVars, bottomVars>>

\* build_overall_table, lines 82-84, then main enters build_month_table.
BuildOverallTable ==
    /\ pc = "build"
    /\ call = "overall"
    /\ overall' = SortedDesc(OverallRows(fetched))
    /\ EnterCollect("monthly")
    /\ UNCHANGED <<server, TEAM_LIMIT, exit_code, net, error, logged, mainVars,
                   fetched, monthly, bottomVars>>

\* build_month_table, lines 89-91, then main enters compute_bottom_of_week.
BuildMonthTable ==
    /\ pc = "build"
    /\ call = "monthly"
    /\ monthly' = SortedDesc(MonthRows(fetched))
    /\ EnterCollect("bottom")
    /\ UNCHANGED <<server, TEAM_LIMIT, exit_code, net, error, logged, mainVars,
                   fetched, overall, bottomVars>>

\* compute_bottom_of_week, lines 95-96: the loop's initial state.
BeginBottom ==
    /\ pc = "build"
    /\ call = "bottom"
    /\ worst_name' = None
    /\ worst_points' = WorstInit
    /\ idx' = 1
    /\ pc' = "history"
    /\ UNCHANGED <<server, TEAM_LIMIT, exit_code, net, error, logged, mainVars,
                   collectVars, fetched, tableVars>>

\* What the server answers for an entry's history.
HistoryResponse(entry) ==
    IF entry \in DOMAIN hist_db
    THEN [status |-> 200, body |-> Some([current |-> hist_db[entry]])]
    ELSE [status |-> 404, body |-> None]

\* compute_bottom_of_week, lines 97-107: one turn of the for loop.
GetEntryHistory ==
    /\ pc = "history"
    /\ idx <= Len(fetched)
    /\ LET t == fetched[idx]
       IN  \E resp \in FailedGets \cup { HistoryResponse(t.entry) } :
             /\ net' = Append(net, Request("GET", "history", t.entry, resp.status))
             /\ IF GetJsonRaises(resp)
                THEN /\ Raise("HTTP error")
                     /\ UNCHANGED bottomVars
                ELSE LET this_gw == FirstRecord(resp.body[1].current, gw)
                     IN  /\ idx' = idx + 1
                         /\ IF this_gw # None /\ Worse(PointsOf(this_gw[1]), worst_points)
                            THEN /\ worst_points' = PointsOf(this_gw[1])
                                 /\ worst_name' = Some(Label(t))
                            ELSE UNCHANGED <<worst_name, worst_points>>
                         /\ UNCHANGED <<pc, error>>
    /\ UNCHANGED <<server, TEAM_LIMIT, exit_code, logged, mainVars, collectVars,
                   fetched, tableVars>>

\* compute_bottom_of_week, lines 108-110: raise or return the worst team.
BottomReturn ==
    /\ pc = "history"
    /\ idx > Len(fetched)
    /\ IF worst_name = None
       THEN Raise("Could not compute bottom of the week")
       ELSE /\ pc' = "post"
            /\ UNCHANGED error
    /\ UNCHANGED <<server, TEAM_LIMIT, exit_code, net, logged, mainVars, collectVars,
                   fetched, tableVars, bottomVars>>

\* main, lines 144-156: build the message, post it, log the success; the
\* script then ends with exit status 0.
PostUpdate ==
    /\ pc = "post"
    /\ \E status \in PostStatuses :
         /\ net' = Append(net, Request("POST", "update", 0, status))
         /\ IF PostToSlackRaises(status)
            THEN /\ Raise("Slack webhook error")
                 /\ UNCHANGED <<logged, exit_code>>
            ELSE /\ logged' = TRUE
                 /\ pc' = "exited"
                 /\ exit_code' = 0
                 /\ UNCHANGED error
    /\ UNCHANGED <<server, TEAM_LIMIT, mainVars, collectVars, fetched, tableVars,
                   bottomVars>>

\* Entry point, lines 161-168: log, post the failure once, swallow whatever
\* that post raises, exit with status 1.
\* (HandleFailure_NoNotify leaves the post out.)
HandleFailure_NoNotify ==
    /\ pc = "failed"
    /\ pc' = "exited"
    /\ exit_code' = 1
    /\ UNCHANGED <<server, TEAM_LIMIT, net, error, logged, mainVars, collectVars,
                   fetched, tableVars, bottomVars>>
HandleFailure ==
    /\ pc = "failed"
    /\ \E status \in PostStatuses :
         net' = Append(net, Request("POST", "failure", 0, status))
    /\ pc' = "exited"
    /\ exit_code' = 1
    /\ UNCHANGED <<server, TEAM_LIMIT, error, logged, mainVars, collectVars,
                   fetched, tableVars, bottomVars>>

\* -------------------------------------------------- the whole script ----
\* What the environment may hold.
EnvValues == { None, Some(<< >>), Some(<<"1", "2", "3">>) }
LimitStrings ==
    { None, Some(<< >>), Some(<<"a", "b", "c">>), Some(<<"-", "1">>), Some(<<"0">>),
      Some(<<"1">>), Some(<<"2">>) }
Environments ==
    [FPL_LEAGUE_ID : EnvValues, SLACK_WEBHOOK_URL : EnvValues, TEAM_LIMIT : LimitStrings]

MainHistories ==
    { << >>, <<Rec(1, Some(7)), Rec(2, Some(10))>>, <<Rec(1, None), Rec(2, Some(7))>> }
MainHistDbs == { [e \in 1..(MainMaxPages * MainPageMax) |-> h] : h \in MainHistories }

\* The state before the first statement runs, for a given server.
Start ==
    /\ TEAM_LIMIT = 0
    /\ pc = "load"
    /\ exit_code = NotExited
    /\ net = << >>
    /\ error = None
    /\ logged = FALSE
    /\ boot = None
    /\ gw = 0
    /\ phase = 0
    /\ call = "none"
    /\ teams = << >>
    /\ page = 1
    /\ brk = FALSE
    /\ served = << >>
    /\ fetched = << >>
    /\ overall = << >>
    /\ monthly = << >>
    /\ idx = 1
    /\ worst_name = None
    /\ worst_points = WorstInit

Init ==
    /\ environ \in Environments
    /\ standings_pages \in PageSeqs(MainMaxPages, MainPageMax)
    /\ hist_db \in MainHistDbs
    /\ Start

Next ==
    \/ ModuleLoad
    \/ GetBootstrap
    \/ GetClassicStandings
    \/ CollectReturn
    \/ BuildOverallTable
    \/ BuildMonthTable
    \/ BeginBottom
    \/ GetEntryHistory
    \/ BottomReturn
    \/ PostUpdate
    \/ HandleFailure

Spec == Init /\ [][Next]_vars

\* ------------------------------------- collect_all_teams on its own ----
\* The state in which build_overall_table enters collect_all_teams, for
\* every limit and every page sequence within the bounds, and for the
\* scenario's league with its limit of 10.
AfterBootstrap ==
    /\ environ = [FPL_LEAGUE_ID |-> Some(<<"1", "2", "3">>),
                  SLACK_WEBHOOK_URL |-> Some(<<"1", "2", "3">>),
                  TEAM_LIMIT |-> None]
    /\ exit_code = NotExited
    /\ net = <<Request("GET", "bootstrap", 0, 200)>>
    /\ error = None
    /\ logged = FALSE
    /\ phase = 1
    /\ overall = << >>
    /\ monthly = << >>
    /\ idx = 1
    /\ worst_name = None
    /\ worst_points = WorstInit

FinishedEvents(n) == [i \in 1..n |-> [id |-> i, finished |-> TRUE, phase |-> Some(1)]]

CollectInit ==
    /\ AfterBootstrap
    /\ TEAM_LIMIT \in (-1..MaxLimit) \cup {10, 50}
    /\ standings_pages \in PageSeqs(MaxPages, PageMax) \cup {ScenarioPages}
    /\ hist_db = << >>
    /\ boot = Some([events |-> FinishedEvents(1)])
    /\ gw = 1
    /\ pc = "collect"
    /\ call = "overall"
    /\ teams = << >>
    /\ page = 1
    /\ brk = FALSE
    /\ served = << >>
    /\ fetched = << >>

CollectNext ==
    \/ GetClassicStandings
    \/ CollectReturn

CollectSpec == CollectInit /\ [][CollectNext]_vars

\* The script runs one statement after another and every request returns:
\* a step that can be taken is taken.
FairCollectSpec == CollectSpec /\ WF_vars(CollectNext)

\* ----------------------------------- build_overall_table on its own ----
TableRows ==
    [entry : {1}, entry_name : {"A", "B"}, player_name : {"p"},
     total : 0..MaxScore, event_total : {0}]
TableTeams == UNION { [1..n -> TableRows] : n \in 0..MaxTeams }

\* The state in which collect_all_teams has returned to a table builder.
TableInit ==
    /\ AfterBootstrap
    /\ TEAM_LIMIT = 50
    /\ standings_pages = << >>
    /\ hist_db = << >>
    /\ boot = Some([events |-> FinishedEvents(1)])
    /\ gw = 1
    /\ pc = "build"
    /\ call \in {"overall", "monthly"}
    /\ fetched \in TableTeams
    /\ teams = fetched
    /\ page = 1
    /\ brk = TRUE
    /\ served = << >>

TableNext ==
    \/ BuildOverallTable
    \/ BuildMonthTable

TableSpec == TableInit /\ [][TableNext]_vars

\* ------------------------------ compute_bottom_of_week on its own ------
\* Histories for a target gameweek g: records of g with any points value or
\* none, and records of another gameweek (whose points are never read).
HistoriesFor(g) ==
    LET recs == { Rec(g, p) : p \in {None} \cup { Some(v) : v \in PointValues } }
                \cup { Rec(g + 1, Some(7)) }
    IN  UNION { [1..n -> recs] : n \in HistLens }

TeamRows(n) == [i \in 1..n |-> Row(i)]

\* The state in which collect_all_teams has returned to
\* compute_bottom_of_week.
BottomInit ==
    /\ AfterBootstrap
    /\ TEAM_LIMIT = 50
    /\ standings_pages = << >>
    /\ gw \in {1, 2}
    /\ boot = Some([events |-> FinishedEvents(gw)])
    /\ \E n \in 0..MaxBottomTeams :
         /\ fetched = TeamRows(n)
         /\ hist_db \in [1..n -> HistoriesFor(gw)]
    /\ pc = "build"
    /\ call = "bottom"
    /\ teams = fetched
    /\ page = 1
    /\ brk = TRUE
    /\ served = << >>

BottomNext ==
    \/ BeginBottom
    \/ GetEntryHistory
    \/ BottomReturn

BottomSpec == BottomInit /\ [][BottomNext]_vars

\* ------------------------------------------------------------ claims ----
\* The positions in net of the requests of one kind.
Reqs(method, what) ==
    { i \in 1..Len(net) : net[i].method = method /\ net[i].what = what }

\* The page numbers of the standings requests made, in order.
RECURSIVE PagesRequested(_)
PagesRequested(log) ==
    IF log = << >> THEN << >>
    ELSE IF log[1].what = "standings"
         THEN <<log[1].arg>> \o PagesRequested(Tail(log))
         ELSE PagesRequested(Tail(log))

RequiredMissing == Falsy(environ.FPL_LEAGUE_ID) \/ Falsy(environ.SLACK_WEBHOOK_URL)

\* C1: every run ends with exit status 2 and no request made when the league
\* id or the webhook URL is missing, with 1 when main raised, and with 0 when
\* main completed without raising.
C1_ExitStatus ==
    pc = "exited" =>
        /\ RequiredMissing => (exit_code = 2 /\ net = << >>)
        /\ error # None => exit_code = 1
        /\ (logged /\ error = None) => exit_code = 0

\* C2: when main raises (in particular when the update POST is answered
\* with 500), the entry point makes exactly one failure POST, makes no
\* request after it, and exits with status 1 whatever that POST's outcome.
C2_OneFailureNotification ==
    /\ Cardinality(Reqs("POST", "failure")) <= 1
    /\ \A i \in Reqs("POST", "update") :
           net[i].status = 500 => (error # None /\ pc \in {"failed", "exited"})
    /\ (pc = "exited" /\ error # None) =>
           /\ exit_code = 1
           /\ Reqs("POST", "failure") = {Len(net)}
    /\ pc = "failed" => (Reqs("POST", "failure") = {} /\ exit_code = NotExited)

C2_Witness ==
    /\ pc = "exited"
    /\ exit_code = 1
    /\ \E i \in Reqs("POST", "update") : net[i].status = 500
    /\ \E i \in Reqs("POST", "failure") : net[i].status = 500

\* C3: a webhook answer to the update POST whose status is not 2xx is
\* fatal: success is not logged and the exit status is not 0.
C3_NonSuccessStatusIsFatal ==
    \A i \in Reqs("POST", "update") :
        net[i].status \notin 200..299 => (~logged /\ exit_code # 0)

NoneFinished == \A i \in 1..Len(Events) : ~Events[i].finished

\* C6: when the bootstrap response lists no finished gameweek, main has
\* raised right after the bootstrap request: no standings page and no entry
\* history was requested, no update was posted, and the run does not succeed.
C6_NoFinishedGameweek ==
    (boot # None /\ NoneFinished) =>
        /\ pc \in {"failed", "exited"}
        /\ error # None
        /\ net[1].what = "bootstrap"
        /\ Reqs("GET", "standings") = {}
        /\ Reqs("GET", "history") = {}
        /\ Reqs("POST", "update") = {}
        /\ ~logged
        /\ exit_code \in {NotExited, 1}

C6_Witness ==
    /\ boot # None
    /\ Events # << >>
    /\ NoneFinished
    /\ pc = "exited"
    /\ error = Some("No finished gameweeks yet")

\* The rows of the pages received by this call, concatenated in fetch order.
RECURSIVE Concat(_)
Concat(pages) ==
    IF pages = << >> THEN << >>
    ELSE pages[1].results \o Concat(Tail(pages))

IsPrefix(s, t) == Len(s) <= Len(t) /\ s = SubSeq(t, 1, Len(s))

\* A page answered with has_next false is the last page requested.
StopsAtLastPage ==
    \A i \in 1..Len(served) :
        ~served[i].has_next =>
            /\ i = Len(served)
            /\ net[Len(net)] = Request("GET", "standings", served[i].page, 200)

\* C4 as stated: collect_all_teams returns at most limit entries, a prefix
\* of the concatenated pages, and requests nothing after a page without
\* continuation.
C4_AtMostLimit ==
    /\ pc = "build" =>
           /\ Len(fetched) <= TEAM_LIMIT
           /\ IsPrefix(fetched, Concat(served))
    /\ StopsAtLastPage

\* C4 as amended: at most max(limit, 0) entries are returned (a negative
\* limit returns the empty list); the rest as stated.
C4_AtMostLimitOrNone ==
    /\ pc = "build" =>
           /\ Len(fetched) <= Max(TEAM_LIMIT, 0)
           /\ IsPrefix(fetched, Concat(served))
    /\ StopsAtLastPage

C4_Witness ==
    /\ pc = "build"
    /\ TEAM_LIMIT = 3
    /\ Len(teams) = 4
    /\ Len(fetched) = 3
    /\ ~served[Len(served)].has_next

Scenario == standings_pages = ScenarioPages /\ TEAM_LIMIT = 10

\* C5 as stated: in the scenario exactly 10 teams are returned and the
\* first two pages are the pages fetched.
C5_TenTeamsTwoPages ==
    (Scenario /\ pc = "build") =>
        /\ Len(fetched) = 10
        /\ PagesRequested(net) = <<1, 2>>

\* C5 as amended: in the scenario exactly 10 teams are returned, the rows of
\* page 1, and page 1 is the only page fetched.
C5_TenTeamsOnePage ==
    (Scenario /\ pc = "build") =>
        /\ Len(fetched) = 10
        /\ fetched = ScenarioPages[1].results
        /\ PagesRequested(net) = <<1>>

C5_Witness ==
    /\ Scenario
    /\ pc = "build"
    /\ Len(fetched) = 10

\* The pages requested are 1, 2, 3, ... in turn: none when limit <= 0, at
\* most limit of them when limit >= 1.
PageRequestsBounded ==
    /\ PagesRequested(net) = [i \in 1..Len(PagesRequested(net)) |-> i]
    /\ TEAM_LIMIT <= 0 => PagesRequested(net) = << >>
    /\ TEAM_LIMIT >= 1 => Len(PagesRequested(net)) <= TEAM_LIMIT

\* C10: collect_all_teams comes to an end whatever the server answers, also
\* when every page reports continuation: it requests pages 1, 2, 3, ... in
\* turn, none when limit <= 0 and at most limit of them when limit >= 1.
C10_Terminates == []PageRequestsBounded /\ <>(pc # "collect")

C10_Witness ==
    /\ pc = "build"
    /\ TEAM_LIMIT = 3
    /\ PagesRequested(net) = <<1, 2, 3>>
    /\ \A i \in 1..Len(served) : served[i].has_next

\* ------------------------------------------------------------------------
RowsWithScore(rows, v) == SelectSeq(rows, LAMBDA r : r[2] = v)

Occurrences(rows, r) == Cardinality({ i \in 1..Len(rows) : rows[i] = r })

\* C9: the overall table is sorted non-increasing by score, holds every
\* fetched team's row exactly as often as it was fetched, and keeps rows of
\* equal score in fetch order.
C9_OverallTableSorted ==
    (pc = "collect" /\ call = "monthly") =>
        LET rows == OverallRows(fetched)
        IN  /\ Len(overall) = Len(rows)
            /\ \A i \in 1..(Len(overall) - 1) : overall[i][2] >= overall[i + 1][2]
            /\ \A i \in 1..Len(rows) :
                   Occurrences(overall, rows[i]) = Occurrences(rows, rows[i])
            /\ \A v \in 0..MaxScore : RowsWithScore(overall, v) = RowsWithScore(rows, v)

C9_Witness ==
    /\ pc = "collect"
    /\ call = "monthly"
    /\ Len(overall) = 3
    /\ fetched[1].total < fetched[2].total
    /\ fetched[2].total = fetched[3].total
    /\ fetched[2].entry_name # fetched[3].entry_name
    /\ overall = <<OverallRows(fetched)[2], OverallRows(fetched)[3], OverallRows(fetched)[1]>>

\* ------------------------------------------------------------------------
\* The history the server holds for the i-th fetched team.
HistoryOfTeam(i) == hist_db[fetched[i].entry]

\* The positions of its records for the target gameweek.
RecordsFor(i) == { k \in 1..Len(HistoryOfTeam(i)) : HistoryOfTeam(i)[k].event = gw }

\* The fetched teams that have a record for the target gameweek.
WithRecord == { i \in 1..Len(fetched) : RecordsFor(i) # {} }

\* The points field of team i's record for the target gameweek.
RecordedPoints(i) ==
    HistoryOfTeam(i)[CHOOSE k \in RecordsFor(i) : \A m \in RecordsFor(i) : k <= m].points

\* compute_bottom_of_week has returned, or raised its own error.
BottomReturned == pc = "post"
BottomRaised == pc = "failed" /\ error = Some("Could not compute bottom of the week")

\* C7: compute_bottom_of_week raises exactly when no fetched team has a
\* record for the target gameweek; otherwise it returns a team that has one,
\* and, the records carrying points, the minimum of those points with the
\* label of the first team in fetch order that scored it.
C7_BottomOfWeek ==
    /\ (pc = "history" /\ idx > Len(fetched)) => (worst_name = None <=> WithRecord = {})
    /\ BottomRaised => WithRecord = {}
    /\ BottomReturned =>
           /\ WithRecord # {}
           /\ \E i \in WithRecord : worst_name = Some(Label(fetched[i]))
           /\ (\A i \in WithRecord : RecordedPoints(i) # None) =>
                  \E i \in WithRecord :
                      /\ worst_points = RecordedPoints(i)[1]
                      /\ worst_name = Some(Label(fetched[i]))
                      /\ \A j \in WithRecord : RecordedPoints(j)[1] >= worst_points
                      /\ \A j \in WithRecord : j < i => RecordedPoints(j)[1] > worst_points

\* Teams A = 10, B = 7, C without a record: B is returned with 7.
C7_Witness ==
    /\ BottomReturned
    /\ Len(fetched) = 3
    /\ WithRecord = {1, 2}
    /\ RecordedPoints(1) = Some(10)
    /\ RecordedPoints(2) = Some(7)
    /\ worst_name = Some(Label(fetched[2]))
    /\ worst_points = 7

\* C8: a team whose record for the target gameweek carries no points value
\* is skipped, not counted as 0: the returned minimum is a points value
\* present in the record of the returned team.
C8_NoZeroSubstituted ==
    BottomReturned =>
        \E i \in WithRecord :
            /\ worst_name = Some(Label(fetched[i]))
            /\ RecordedPoints(i) = Some(worst_points)
====
